---------------------------- MODULE Spec2Model ----------------------------
(***************************************************************************)
(* A model of etl_connector.py: the NVD CVE connector (NVDETLConnector and *)
(* main).  Three specifications share the definitions:                     *)
(*   SpecTransform  transform_data applied to one batch of raw records;    *)
(*   SpecLoad       load_data called again and again on one collection;    *)
(*   Spec           main(), run after run, against one persistent store.   *)
(*                                                                         *)
(* JSON values.  A key a mapping does not carry is Missing, a JSON null is *)
(* None.  A value that the code expects to be a mapping carries dict (it   *)
(* is one, or it is a scalar) or kind ("missing", "dict"/"list", "null").  *)
(* Scores are strings ("9.8"); the quality score is kept in hundredths     *)
(* (0.25 is 25): 0.25 and its multiples are exact in binary floating       *)
(* point, so the sums of _calculate_cve_quality are exact.  Time is in     *)
(* days.                                                                   *)
(***************************************************************************)
EXTENDS Integers, Sequences, FiniteSets, TLC

VARIABLES
    pc,                 \* where the run is (see each specification)
    now,                \* datetime.now(timezone.utc), in days
    session,            \* connector.session: "none", "open", "closed"
    mongo_client,       \* connector.mongo_client: "None", "open", "closed"
    collection_handle,  \* connector.collection is not None
    collection,         \* the documents of the MongoDB collection
    indexes,            \* the indexes of the collection
    raw_data,           \* run_etl_pipeline's raw_data
    transformed_data,   \* run_etl_pipeline's transformed_data
    transform_raised,   \* transform_data ended with an exception
    responses,          \* the HTTP responses extract_data received, in order
    slept,              \* seconds extract_data slept
    extract_failed,     \* extract_data ended in one of its except branches
    stages,             \* the stages run_etl_pipeline started, in order
    load_in,            \* the arguments and store faults of the last load_data
    load_out,           \* what the last load_data returned and counted
    before,             \* the collection before the last load_data
    first_out,          \* SpecLoad: the result of the call before a repeated one
    latest,             \* cve_id -> the last document replace_one stored for it
    closes,             \* how often each resource was closed
    log,                \* what happened in main, in order (calls on resources)
    exit_code           \* sys.exit's argument, -1 while running

vars == <<pc, now, session, mongo_client, collection_handle, collection,
          indexes, raw_data, transformed_data, transform_raised, responses,
          slept, extract_failed, stages, load_in, load_out, before,
          first_out, latest, closes, log, exit_code>>

-----------------------------------------------------------------------------
(* Bounds of the model.                                                     *)

MaxBatch == 2       \* documents or raw records in one batch
MaxRuns == 2        \* runs of main() against the same store

(* Constants of the program.                                                *)

RecentDays == 30      \* timedelta(days=30)
BackoffSeconds == 10  \* time.sleep(10)
MaxReferenceUrls == 10 \* reference_urls[:10]
QuarterScore == 25    \* score += 0.25, in hundredths

-----------------------------------------------------------------------------
(* JSON values as the NVD API may return them.                              *)

Missing == "<missing>"
None == "<None>"

Range(s) == {s[i] : i \in 1..Len(s)}

\* The first n elements of s: s[:n].
Take(s, n) == IF Len(s) <= n THEN s ELSE SubSeq(s, 1, n)

SeqsUpTo(S, n) == UNION {[1..k -> S] : k \in 0..n}

\* len(str) for the strings of the model.
StrLen(s) ==
    CASE s = "" -> 0
      [] s = "overflow" -> 8
      [] s = "desbordamiento" -> 14

List(items) == [kind |-> "list", items |-> items]
NoList == [kind |-> "missing", items |-> <<>>]
NullList == [kind |-> "null", items |-> <<>>]

\* One element of cve.descriptions or of a weakness's description.
Desc(lang, value) == [dict |-> TRUE, lang |-> lang, value |-> value]
ScalarDesc == [dict |-> FALSE, lang |-> Missing, value |-> Missing]

\* One element of cve.references.
Ref(url) == [dict |-> TRUE, url |-> url]
ScalarRef == [dict |-> FALSE, url |-> Missing]

\* One element of cve.weaknesses.
Weakness(description) == [dict |-> TRUE, description |-> description]
ScalarWeakness == [dict |-> FALSE, description |-> NoList]

\* One element of cve.metrics.cvssMetricV31.
CvssData(score, severity) ==
    [kind |-> "dict", baseScore |-> score, baseSeverity |-> severity]
NoCvssData == [kind |-> "missing", baseScore |-> Missing, baseSeverity |-> Missing]
NullCvssData == [kind |-> "null", baseScore |-> Missing, baseSeverity |-> Missing]
Metric(cvssData) == [dict |-> TRUE, cvssData |-> cvssData]
ScalarMetric == [dict |-> FALSE, cvssData |-> NoCvssData]

Metrics(v31) == [kind |-> "dict", cvssMetricV31 |-> v31]
NoMetrics == [kind |-> "missing", cvssMetricV31 |-> NoList]
NullMetrics == [kind |-> "null", cvssMetricV31 |-> NoList]

\* cve.published: absent, null, not ISO, ISO without an offset (naive), ISO
\* with one (aware).
Published(kind, day) == [kind |-> kind, day |-> day]
NoPublished == Published("missing", 0)

Cve(id, descriptions, metrics, references, weaknesses, published) ==
    [kind |-> "dict", id |-> id, descriptions |-> descriptions,
     metrics |-> metrics, references |-> references,
     weaknesses |-> weaknesses, published |-> published,
     lastModified |-> Missing]
\* {}: the default of cve_record.get('cve', {}).
EmptyCve == Cve(Missing, NoList, NoMetrics, NoList, NoList, NoPublished)
NoCve == [EmptyCve EXCEPT !.kind = "missing"]
NullCve == [EmptyCve EXCEPT !.kind = "null"]

\* One element of the response's 'vulnerabilities'.
Record(cve) == [dict |-> TRUE, cve |-> cve]
ScalarRecord == [dict |-> FALSE, cve |-> NoCve]


-----------------------------------------------------------------------------
(* transform_data and its helpers.                                          *)

\* dict.get(key, default) of a scalar value.
Get(value, default) == IF value = Missing THEN default ELSE value

\* dict.get(key, []) of a list value.
GetList(value) == IF value.kind = "missing" THEN List(<<>>) ELSE value

\* bool(x) of a list value and of a scalar.
TruthyList(value) == value.kind = "list" /\ value.items # <<>>
TruthyStr(value) == value \notin {Missing, None, ""}

Raised == [raised |-> TRUE]
Value(v) == [raised |-> FALSE, value |-> v]

\* next((d['value'] for d in descriptions if d.get('lang') == 'en'), ''):
\* the generator stops at the first English entry.
RECURSIVE first_english(_, _)
first_english(items, i) ==
    IF i > Len(items) THEN Value("")
    ELSE IF ~items[i].dict THEN Raised
    ELSE IF items[i].lang = "en"
         THEN IF items[i].value = Missing THEN Raised ELSE Value(items[i].value)
         ELSE first_english(items, i + 1)

english_desc_of(descriptions) ==
    IF descriptions.kind = "null" THEN Raised
    ELSE first_english(descriptions.items, 1)

\* cvss_v3[0].get('cvssData', {}).get(field) if cvss_v3 else None
cvss_field(cvss_v3, field) ==
    IF ~TruthyList(cvss_v3) THEN Value(None)
    ELSE LET first == cvss_v3.items[1]
         IN  IF ~first.dict \/ first.cvssData.kind = "null" THEN Raised
             ELSE IF first.cvssData.kind = "missing" THEN Value(None)
             ELSE Value(Get(first.cvssData[field], None))

\* [ref.get('url', '') for ref in references]
reference_urls_of(references) ==
    IF references.kind = "null" \/ \E i \in 1..Len(references.items) :
                                        ~references.items[i].dict
    THEN Raised
    ELSE Value([i \in 1..Len(references.items) |->
                    Get(references.items[i].url, "")])

\* The inner loop over weakness.get('description', []).
RECURSIVE cwe_of_description(_, _, _)
cwe_of_description(items, i, acc) ==
    IF i > Len(items) THEN Value(acc)
    ELSE IF ~items[i].dict THEN Raised
    ELSE cwe_of_description(items, i + 1,
             IF items[i].lang = "en"
             THEN Append(acc, Get(items[i].value, "")) ELSE acc)

\* The loop over weaknesses.
RECURSIVE cwe_ids_loop(_, _, _)
cwe_ids_loop(items, i, acc) ==
    IF i > Len(items) THEN Value(acc)
    ELSE IF ~items[i].dict \/ GetList(items[i].description).kind = "null"
         THEN Raised
    ELSE LET inner == cwe_of_description(
                          GetList(items[i].description).items, 1, acc)
         IN  IF inner.raised THEN Raised
             ELSE cwe_ids_loop(items, i + 1, inner.value)

cwe_ids_of(weaknesses) ==
    IF weaknesses.kind = "null" THEN Raised
    ELSE cwe_ids_loop(weaknesses.items, 1, <<>>)

\* A mutant of _calculate_cve_quality: the description check asks for an
\* English description.
quality_wants_english(cve) ==
      (IF TruthyStr(cve.id) THEN QuarterScore ELSE 0)
    + (IF /\ TruthyList(cve.descriptions)
          /\ \E i \in 1..Len(cve.descriptions.items) :
                 cve.descriptions.items[i].lang = "en"
       THEN QuarterScore ELSE 0)
    + (IF cve.metrics.kind = "dict" /\ TruthyList(cve.metrics.cvssMetricV31)
       THEN QuarterScore ELSE 0)
    + (IF TruthyList(cve.references) THEN QuarterScore ELSE 0)

_calculate_cve_quality(cve) ==
      (IF TruthyStr(cve.id) THEN QuarterScore ELSE 0)
    + (IF TruthyList(cve.descriptions) THEN QuarterScore ELSE 0)
    + (IF cve.metrics.kind = "dict" /\ TruthyList(cve.metrics.cvssMetricV31)
       THEN QuarterScore ELSE 0)
    + (IF TruthyList(cve.references) THEN QuarterScore ELSE 0)

\* A naive datetime compared with the aware cutoff raises TypeError, which
\* the bare except turns into False.
_is_recent_cve(published_date, today) ==
    IF published_date.kind \in {"missing", "null"} THEN FALSE
    ELSE IF published_date.kind \in {"malformed", "naive"} THEN FALSE
    ELSE published_date.day > today - RecentDays

_map_severity_to_level(severity) ==
    CASE severity = "LOW" -> 1
      [] severity = "MEDIUM" -> 2
      [] severity = "HIGH" -> 3
      [] severity = "CRITICAL" -> 4
      [] OTHER -> 0

\* A mutant of cve_id_of: cve.get('id'), without the default.
cve_id_without_default(cve) == Get(cve.id, None)

\* cve.get('id', 'unknown')
cve_id_of(cve) == Get(cve.id, "unknown")

\* The body of the try block for one record.
transform_record(cve_record, current_timestamp) ==
    IF ~cve_record.dict THEN Raised
    ELSE
    LET cve == IF cve_record.cve.kind = "missing" THEN EmptyCve
               ELSE cve_record.cve
    IN
    IF cve.kind = "null" THEN Raised
    ELSE
    LET cve_id == cve_id_of(cve)
        english_desc == english_desc_of(GetList(cve.descriptions))
    IN
    IF english_desc.raised \/ cve.metrics.kind = "null" THEN Raised
    ELSE
    LET cvss_v3 == IF cve.metrics.kind = "missing" THEN List(<<>>)
                   ELSE GetList(cve.metrics.cvssMetricV31)
        cvss_score == cvss_field(cvss_v3, "baseScore")
        cvss_severity == cvss_field(cvss_v3, "baseSeverity")
        reference_urls == reference_urls_of(GetList(cve.references))
        cwe_ids == cwe_ids_of(GetList(cve.weaknesses))
    IN
    IF \/ cvss_score.raised \/ cvss_severity.raised
       \/ reference_urls.raised \/ cwe_ids.raised
       \/ english_desc.value = None
    THEN Raised
    ELSE Value(
        [original_data |-> cve_record,
         etl_metadata |->
            [ingestion_timestamp |-> current_timestamp,
             source |-> "nvd_cve_feed",
             version |-> "1.0",
             record_id |-> cve_id,
             data_quality_score |-> _calculate_cve_quality(cve)],
         cve_id |-> cve_id,
         description |-> english_desc.value,
         published_date |-> cve.published,
         last_modified |-> Get(cve.lastModified, None),
         cvss_score |-> cvss_score.value,
         cvss_severity |-> cvss_severity.value,
         reference_count |-> Len(reference_urls.value),
         reference_urls |-> Take(reference_urls.value, MaxReferenceUrls),
         cwe_ids |-> cwe_ids.value,
         has_cvss_score |-> cvss_score.value # None,
         is_recent |-> _is_recent_cve(cve.published, current_timestamp),
         description_length |-> StrLen(english_desc.value),
         severity_level |-> _map_severity_to_level(cvss_severity.value)])

RECURSIVE transform_loop(_, _, _, _)

\* A mutant of the except branch: the exception leaves transform_data.
except_propagates(raw, i, current_timestamp, acc) ==
    [raised |-> TRUE, data |-> <<>>]

\* except Exception: logger.warning(...); continue
except_continue(raw, i, current_timestamp, acc) ==
    transform_loop(raw, i + 1, current_timestamp, acc)

\* for cve_record in raw_data: try: ... transformed_data.append(...)
transform_loop(raw, i, current_timestamp, acc) ==
    IF i > Len(raw) THEN [raised |-> FALSE, data |-> acc]
    ELSE LET r == transform_record(raw[i], current_timestamp)
         IN  IF r.raised
             THEN except_continue(raw, i, current_timestamp, acc)
             ELSE transform_loop(raw, i + 1, current_timestamp,
                                 Append(acc, r.value))

transform_data(raw, current_timestamp) ==
    transform_loop(raw, 1, current_timestamp, <<>>)

-----------------------------------------------------------------------------
(* The raw records of the model.                                            *)

Spanish == Desc("es", "desbordamiento")
English == Desc("en", "overflow")
Critical == Metrics(List(<<Metric(CvssData("9.8", "CRITICAL"))>>))
OneRef == List(<<Ref("https://nvd.nist.gov/1")>>)
Cwe == List(<<Weakness(List(<<Desc("en", "CWE-79")>>))>>)

\* Records of the shape the API documents, with each optional part present
\* or absent.
RegularRecords ==
    {Record(Cve(id, d, m, r, NoList, NoPublished)) :
        id \in {Missing, "CVE-1"},
        d \in {NoList, List(<<Spanish>>), List(<<English>>)},
        m \in {NoMetrics, Critical},
        r \in {NoList, OneRef}}

\* CVE-1 with id and references and one part changed.
Variant(d, m, r, w, p) == Record(Cve("CVE-1", d, m, r, w, p))

IrregularRecords ==
    { ScalarRecord, Record(NoCve), Record(NullCve),
      Record(Cve(None, NoList, NoMetrics, OneRef, NoList, NoPublished)),
      Record(Cve("", NoList, NoMetrics, OneRef, NoList, NoPublished)),
      Variant(List(<<>>), NoMetrics, OneRef, NoList, NoPublished),
      Variant(List(<<Spanish, English>>), NoMetrics, OneRef, NoList, NoPublished),
      Variant(List(<<English, ScalarDesc>>), NoMetrics, OneRef, NoList, NoPublished),
      Variant(List(<<ScalarDesc, English>>), NoMetrics, OneRef, NoList, NoPublished),
      Variant(List(<<Desc("en", Missing)>>), NoMetrics, OneRef, NoList, NoPublished),
      Variant(List(<<Desc("en", None)>>), NoMetrics, OneRef, NoList, NoPublished),
      Variant(List(<<Desc(Missing, "overflow")>>), NoMetrics, OneRef, NoList, NoPublished),
      Variant(NullList, NoMetrics, OneRef, NoList, NoPublished),
      Variant(NoList, NullMetrics, OneRef, NoList, NoPublished),
      Variant(NoList, Metrics(NoList), OneRef, NoList, NoPublished),
      Variant(NoList, Metrics(NullList), OneRef, NoList, NoPublished),
      Variant(NoList, Metrics(List(<<>>)), OneRef, NoList, NoPublished),
      Variant(NoList, Metrics(List(<<ScalarMetric>>)), OneRef, NoList, NoPublished),
      Variant(NoList, Metrics(List(<<Metric(NoCvssData)>>)), OneRef, NoList, NoPublished),
      Variant(NoList, Metrics(List(<<Metric(NullCvssData)>>)), OneRef, NoList, NoPublished),
      Variant(NoList, Metrics(List(<<Metric(CvssData("5.0", Missing))>>)), OneRef, NoList, NoPublished),
      Variant(NoList, Metrics(List(<<Metric(CvssData(Missing, "LOW"))>>)), OneRef, NoList, NoPublished),
      Variant(NoList, Metrics(List(<<Metric(CvssData("7.5", "HIGH")), ScalarMetric>>)), OneRef, NoList, NoPublished),
      Variant(NoList, NoMetrics, List(<<>>), NoList, NoPublished),
      Variant(NoList, NoMetrics, NullList, NoList, NoPublished),
      Variant(NoList, NoMetrics, List(<<Ref(Missing)>>), NoList, NoPublished),
      Variant(NoList, NoMetrics, List(<<Ref("https://nvd.nist.gov/1"), ScalarRef>>), NoList, NoPublished),
      Variant(NoList, NoMetrics, OneRef, Cwe, NoPublished),
      Variant(NoList, NoMetrics, OneRef, NullList, NoPublished),
      Variant(NoList, NoMetrics, OneRef, List(<<ScalarWeakness>>), NoPublished),
      Variant(NoList, NoMetrics, OneRef, List(<<Weakness(NoList)>>), NoPublished),
      Variant(NoList, NoMetrics, OneRef, List(<<Weakness(NullList)>>), NoPublished),
      Variant(NoList, NoMetrics, OneRef, List(<<Weakness(List(<<Spanish, ScalarDesc>>))>>), NoPublished),
      Variant(NoList, NoMetrics, OneRef, List(<<Weakness(List(<<Desc("en", Missing)>>))>>), NoPublished),
      Variant(NoList, NoMetrics, OneRef, NoList, Published("null", 0)),
      Variant(NoList, NoMetrics, OneRef, NoList, Published("malformed", 0)),
      Variant(NoList, NoMetrics, OneRef, NoList, Published("naive", RecentDays)),
      Variant(NoList, NoMetrics, OneRef, NoList, Published("aware", RecentDays)),
      Variant(NoList, NoMetrics, OneRef, NoList, Published("aware", 0)) }

RawRecords == RegularRecords \cup IrregularRecords

\* The day of the first run.
Today == RecentDays + 1

-----------------------------------------------------------------------------
(* The MongoDB collection and load_data.  A stored document is the          *)
(* replacement with the _id the server gave it at insertion.                *)

NumIndexes == 4     \* the four create_index calls of load_data

Stored(id, doc) == [_id |-> id, doc |-> doc]

Docs(coll) == {s.doc : s \in coll}

WithId(coll, cve_id) == {s \in coll : s.doc.cve_id = cve_id}

\* A fresh ObjectId.
FreshId(coll) ==
    IF coll = {} THEN 1
    ELSE 1 + CHOOSE n \in {s._id : s \in coll} :
                 \A m \in {s._id : s \in coll} : m <= n

\* A mutant of replacement_of: a merge, which keeps the stored CVSS fields
\* where the new document has none.
replacement_merges(old, new) ==
    IF new.cvss_score = None
    THEN [new EXCEPT !.cvss_score = old.cvss_score,
                     !.cvss_severity = old.cvss_severity,
                     !.has_cvss_score = old.has_cvss_score,
                     !.severity_level = old.severity_level]
    ELSE new

\* What replace_one leaves in place of the matched document: the
\* replacement, whole.
replacement_of(old, new) == new

\* A mutant of modified_count_of: every matched document counts as modified.
modified_count_always(old, new) == 1

\* result.modified_count: 0 when the replacement changes nothing.
modified_count_of(old, new) == IF old = new THEN 0 ELSE 1

\* collection.replace_one({'cve_id': record['cve_id']}, record, upsert=True)
replace_one(coll, record) ==
    LET matched == WithId(coll, record.cve_id)
    IN  IF matched = {}
        THEN LET id == FreshId(coll)
             IN  [collection |-> coll \cup {Stored(id, record)},
                  upserted_id |-> id, modified_count |-> 0]
        ELSE LET s == CHOOSE x \in matched : \A y \in matched : x._id <= y._id
                 new == replacement_of(s.doc, record)
             IN  [collection |-> (coll \ {s}) \cup {Stored(s._id, new)},
                  upserted_id |-> 0,
                  modified_count |-> modified_count_of(s.doc, record)]

IndexNames == <<"etl_metadata.ingestion_timestamp", "cve_id",
                "cvss_severity", "published_date">>

\* The store faults of one load_data call: index_fail_at = k > 0 makes the
\* k-th create_index raise, write_fails are the positions of the batch
\* whose replace_one raises.
NoFault == [index_fail_at |-> 0, write_fails |-> {}]
StoreDown(batch) == [index_fail_at |-> 1, write_fails |-> 1..Len(batch)]

\* The four create_index calls; a unique index cannot be built over
\* duplicate keys.
create_indexes(coll, idx, fault) ==
    LET duplicate == \E s, t \in coll : s # t /\ s.doc.cve_id = t.doc.cve_id
        fail_at == IF fault.index_fail_at > 0 THEN fault.index_fail_at
                   ELSE IF duplicate /\ "cve_id" \notin idx THEN 2 ELSE 0
    IN  [raised |-> fail_at > 0,
         indexes |-> idx \cup {IndexNames[k] : k \in
                        1..(IF fail_at > 0 THEN fail_at - 1 ELSE NumIndexes)}]

LoadState(coll, inserted, updated, outcomes) ==
    [collection |-> coll, inserted_count |-> inserted,
     updated_count |-> updated, outcomes |-> outcomes]

RECURSIVE load_loop(_, _, _, _)

\* A mutant of the inner except branch: the first failed write ends the loop.
write_except_breaks(batch, i, fault, st) == st

\* except Exception: logger.warning(...); continue
write_except_continue(batch, i, fault, st) ==
    load_loop(batch, i + 1, fault,
              [st EXCEPT !.outcomes = Append(@, "failed")])

\* for record in transformed_data: try: replace_one ... count
load_loop(batch, i, fault, st) ==
    IF i > Len(batch) THEN st
    ELSE IF i \in fault.write_fails
         THEN write_except_continue(batch, i, fault, st)
    ELSE LET result == replace_one(st.collection, batch[i])
         IN  load_loop(batch, i + 1, fault,
                 IF result.upserted_id # 0
                 THEN LoadState(result.collection, st.inserted_count + 1,
                                st.updated_count,
                                Append(st.outcomes, "inserted"))
                 ELSE IF result.modified_count > 0
                 THEN LoadState(result.collection, st.inserted_count,
                                st.updated_count + 1,
                                Append(st.outcomes, "updated"))
                 ELSE LoadState(result.collection, st.inserted_count,
                                st.updated_count,
                                Append(st.outcomes, "unchanged")))

LoadResult(ok, idx, st) ==
    [called |-> TRUE, ok |-> ok, indexes |-> idx,
     collection |-> st.collection, inserted_count |-> st.inserted_count,
     updated_count |-> st.updated_count, outcomes |-> st.outcomes]

\* A mutant of index_error: the error of create_index is swallowed and the
\* loop runs.
index_error_ignored(coll, idx, batch, fault) ==
    LoadResult(TRUE, idx, load_loop(batch, 1, fault, LoadState(coll, 0, 0, <<>>)))

\* The outer except: logger.error(...); return False
index_error(coll, idx, batch, fault) ==
    LoadResult(FALSE, idx, LoadState(coll, 0, 0, <<>>))

load_data(coll, idx, batch, fault) ==
    IF batch = <<>> THEN LoadResult(TRUE, idx, LoadState(coll, 0, 0, <<>>))
    ELSE LET created == create_indexes(coll, idx, fault)
         IN  IF created.raised
             THEN index_error(coll, created.indexes, batch, fault)
             ELSE LoadResult(TRUE, created.indexes,
                      load_loop(batch, 1, fault, LoadState(coll, 0, 0, <<>>)))

\* The documents that the replace_one calls of one load_data stored, the
\* last one for each cve_id, on top of those stored before.
RECURSIVE LatestAfter(_, _, _, _)
LatestAfter(late, batch, i, fault) ==
    IF i > Len(batch) THEN late
    ELSE LatestAfter(
             IF i \in fault.write_fails THEN late
             ELSE {d \in late : d.cve_id # batch[i].cve_id} \cup {batch[i]},
             batch, i + 1, fault)

-----------------------------------------------------------------------------
(* The state outside a run of main().                                       *)

NoLoad == [called |-> FALSE]
NoResult == [called |-> FALSE]

\* The fields of a connector before __init__ and of a run before it starts.
FreshRun ==
    /\ session = "none"
    /\ mongo_client = "None"
    /\ collection_handle = FALSE
    /\ responses = <<>>
    /\ slept = 0
    /\ extract_failed = FALSE
    /\ stages = <<>>
    /\ closes = [r \in {"session", "mongo_client"} |-> 0]
    /\ log = <<>>
    /\ exit_code = -1

EmptyStore ==
    /\ collection = {}
    /\ indexes = {}
    /\ latest = {}
    /\ before = {}
    /\ load_in = NoLoad
    /\ load_out = NoResult
    /\ first_out = NoResult

\* The connector after a successful connect_to_mongodb, before extraction.
ConnectedRun ==
    /\ session = "open"
    /\ mongo_client = "open"
    /\ collection_handle = TRUE
    /\ responses = <<>>
    /\ slept = 0
    /\ extract_failed = FALSE
    /\ stages = <<>>
    /\ closes = [r \in {"session", "mongo_client"} |-> 0]
    /\ log = <<>>
    /\ exit_code = -1

connector_vars == <<session, mongo_client, collection_handle, closes, log,
                    exit_code>>
extract_vars == <<responses, slept, extract_failed>>
stage_vars == <<stages>>
store_vars == <<collection, indexes, latest, before, load_in, load_out,
                first_out>>

-----------------------------------------------------------------------------
(* SpecTransform: transform_data on one batch.                              *)

InitTransform ==
    /\ pc = "transform"
    /\ now = Today
    /\ raw_data \in SeqsUpTo(RawRecords, MaxBatch)
    /\ transformed_data = <<>>
    /\ transform_raised = FALSE
    /\ ConnectedRun
    /\ EmptyStore

TransformBatch ==
    /\ pc = "transform"
    /\ LET out == transform_data(raw_data, now)
       IN  /\ transformed_data' = out.data
           /\ transform_raised' = out.raised
    /\ pc' = "transformed"
    /\ UNCHANGED <<now, raw_data, connector_vars, extract_vars, stage_vars,
                   store_vars>>

NextTransform == TransformBatch

SpecTransform == InitTransform /\ [][NextTransform]_vars

-----------------------------------------------------------------------------
(* SpecLoad: load_data, called again and again on batches of canonical      *)
(* documents, with and without store faults, on one collection.             *)

FullCve1 == Variant(List(<<English>>), Critical, OneRef, Cwe, NoPublished)
BareCve1 == Variant(List(<<English>>), NoMetrics, OneRef, NoList, NoPublished)
NoIdA == Record(NoCve)
NoIdB == Record(Cve(Missing, List(<<English>>), NoMetrics, NoList, NoList,
                    NoPublished))

LoadRecords == {FullCve1, BareCve1, NoIdA}

\* The canonical documents: what transform_data makes of the records.
Documents == {transform_record(r, Today).value : r \in LoadRecords}

\* Index creation works, or the store fails from the first create_index on.
IndexFaults == {0, 1}

Faults(batch) ==
    [index_fail_at : IndexFaults, write_fails : SUBSET (1..Len(batch))]

Call(batch, fault) == [called |-> TRUE, batch |-> batch, fault |-> fault]

\* One load_data call and what it leaves behind.
DoLoad(batch, fault) ==
    LET out == load_data(collection, indexes, batch, fault)
    IN  /\ collection' = out.collection
        /\ indexes' = out.indexes
        /\ before' = collection
        /\ load_in' = Call(batch, fault)
        /\ load_out' = out
        /\ latest' = IF batch # <<>> /\ fault.index_fail_at = 0
                     THEN LatestAfter(latest, batch, 1, fault)
                     ELSE latest

InitLoad ==
    /\ pc = "ready"
    /\ now = Today
    /\ raw_data = <<>>
    /\ transformed_data = <<>>
    /\ transform_raised = FALSE
    /\ ConnectedRun
    /\ EmptyStore

LoadBatch ==
    /\ \E batch \in SeqsUpTo(Documents, MaxBatch) :
         \E fault \in Faults(batch) :
            /\ DoLoad(batch, fault)
            /\ transformed_data' = batch
    /\ first_out' = NoResult
    /\ pc' = "loaded"
    /\ UNCHANGED <<now, raw_data, transform_raised, connector_vars,
                   extract_vars, stage_vars>>

\* load_data again on the batch of the last call, which met no fault.
Reload ==
    /\ pc = "loaded"
    /\ load_in.fault = NoFault
    /\ DoLoad(load_in.batch, NoFault)
    /\ first_out' = load_out
    /\ pc' = "reloaded"
    /\ UNCHANGED <<now, raw_data, transformed_data, transform_raised,
                   connector_vars, extract_vars, stage_vars>>

NextLoad == LoadBatch \/ Reload

SpecLoad == InitLoad /\ [][NextLoad]_vars

-----------------------------------------------------------------------------
(* extract_data.  What session.get gives: an exception (status 0), or a     *)
(* response with a status and a body.                                       *)

Timeout == [status |-> 0, json |-> FALSE, vulnerabilities |-> <<>>]
Status(code) == [status |-> code, json |-> FALSE, vulnerabilities |-> <<>>]
BadJson == [status |-> 200, json |-> FALSE, vulnerabilities |-> <<>>]
Ok(records) == [status |-> 200, json |-> TRUE, vulnerabilities |-> records]

RateLimited == Status(429)

Extracted(data, got, seconds, failed) ==
    [data |-> data, responses |-> got, slept |-> seconds, failed |-> failed]

\* The except branches: logger.error(...); return []
extract_fails(got, seconds) == Extracted(<<>>, got, seconds, TRUE)

\* response.raise_for_status(); data = response.json();
\* all_cves.extend(data.get('vulnerabilities', [])); return all_cves
read_response(response, got, seconds) ==
    IF response.status # 200 \/ ~response.json
    THEN extract_fails(got, seconds)
    ELSE Extracted(response.vulnerabilities, got, seconds, FALSE)

\* A mutant of rate_limited: no sleep and no second request.
rate_limited_no_retry(script) ==
    read_response(script[1], <<script[1]>>, 0)

\* if response.status_code == 429: time.sleep(10); response = session.get(...)
rate_limited(script) ==
    IF script[2].status = 0
    THEN extract_fails(<<script[1], script[2]>>, BackoffSeconds)
    ELSE read_response(script[2], <<script[1], script[2]>>, BackoffSeconds)

\* script: what the server answers to the first and to the second request.
extract_data(script) ==
    IF script[1].status = 0 THEN extract_fails(<<script[1]>>, 0)
    ELSE IF script[1].status = 429 THEN rate_limited(script)
    ELSE read_response(script[1], <<script[1]>>, 0)

-----------------------------------------------------------------------------
(* Spec: main(), run after run.  pc follows main and run_etl_pipeline:      *)
(* "start", "connect", "extract", "transform", "load", then "completed" or  *)
(* "failed" (run_etl_pipeline returned True or False), "finally", "exited". *)

FeedRecords == {FullCve1, NoIdA, NoIdB, ScalarRecord}

Responses ==
    {Timeout, RateLimited, Status(500), BadJson}
        \cup {Ok(batch) : batch \in SeqsUpTo(FeedRecords, MaxBatch)}

\* A second answer is asked for only after a 429.
Scripts ==
    {<<r>> : r \in Responses \ {RateLimited}}
        \cup {<<RateLimited, r>> : r \in Responses}

StageOrder == <<"connect", "extract", "transform", "load">>

Init ==
    /\ pc = "start"
    /\ now = Today
    /\ raw_data = <<>>
    /\ transformed_data = <<>>
    /\ transform_raised = FALSE
    /\ FreshRun
    /\ EmptyStore

\* connector = NVDETLConnector()
Construct ==
    /\ pc = "start"
    /\ session' = "open"
    /\ log' = Append(log, "Session()")
    /\ pc' = "connect"
    /\ UNCHANGED <<now, mongo_client, collection_handle, closes, exit_code,
                   raw_data, transformed_data, transform_raised,
                   extract_vars, stage_vars, store_vars>>

\* if not self.connect_to_mongodb(): return False
after_connect(connected) == IF connected THEN "extract" ELSE "failed"

\* connect_to_mongodb: MongoClient(...) raises (an invalid URI; not a
\* ConnectionFailure, it reaches run_etl_pipeline's except), or the ping
\* raises ConnectionFailure or another error, or it succeeds.
ConnectToMongodb ==
    /\ pc = "connect"
    /\ stages' = Append(stages, "connect")
    /\ \E outcome \in {"ok", "ping ConnectionFailure", "ping other error",
                       "MongoClient raises"} :
          /\ mongo_client' =
                 IF outcome = "MongoClient raises" THEN "None" ELSE "open"
          /\ log' = IF outcome = "MongoClient raises" THEN log
                    ELSE log \o <<"MongoClient()", "store">>
          /\ collection_handle' = (outcome = "ok")
          /\ pc' = after_connect(outcome = "ok")
    /\ UNCHANGED <<now, session, closes, exit_code, raw_data,
                   transformed_data, transform_raised, extract_vars,
                   store_vars>>

\* if not raw_data: return False
after_extract(data) == IF data = <<>> THEN "failed" ELSE "transform"

ExtractData ==
    /\ pc = "extract"
    /\ stages' = Append(stages, "extract")
    /\ \E script \in Scripts :
          LET out == extract_data(script)
          IN  /\ raw_data' = out.data
              /\ responses' = out.responses
              /\ slept' = out.slept
              /\ extract_failed' = out.failed
              /\ log' = log \o [i \in 1..Len(out.responses) |-> "http"]
              /\ pc' = after_extract(out.data)
    /\ UNCHANGED <<now, session, mongo_client, collection_handle, closes,
                   exit_code, transformed_data, transform_raised, store_vars>>

\* A mutant of after_transform: an empty transformation does not stop the run.
after_transform_always(out) == "load"

\* if not transformed_data: return False; an exception reaches the except
\* of run_etl_pipeline.
after_transform(out) ==
    IF out.raised \/ out.data = <<>> THEN "failed" ELSE "load"

TransformData ==
    /\ pc = "transform"
    /\ stages' = Append(stages, "transform")
    /\ LET out == transform_data(raw_data, now)
       IN  /\ transformed_data' = out.data
           /\ transform_raised' = out.raised
           /\ pc' = after_transform(out)
    /\ UNCHANGED <<now, raw_data, connector_vars, extract_vars, store_vars>>

\* if not self.load_data(transformed_data): return False
after_load(ok) == IF ok THEN "completed" ELSE "failed"

LoadData ==
    /\ pc = "load"
    /\ stages' = Append(stages, "load")
    /\ \E fault \in Faults(transformed_data) :
          /\ DoLoad(transformed_data, fault)
          /\ pc' = after_load(load_data(collection, indexes,
                                        transformed_data, fault).ok)
    /\ log' = IF transformed_data = <<>> THEN log ELSE Append(log, "store")
    /\ UNCHANGED <<now, session, mongo_client, collection_handle, closes,
                   exit_code, raw_data, transformed_data, transform_raised,
                   extract_vars, first_out>>

\* success: get_pipeline_stats() reads the store (and may fail, which is
\* logged), then sys.exit(0).
ExitSuccess ==
    /\ pc = "completed"
    /\ \E stats \in {"stats", "stats failed"} :
          log' = IF collection_handle THEN log \o <<"store", stats>>
                 ELSE Append(log, "stats")
    /\ exit_code' = 0
    /\ pc' = "finally"
    /\ UNCHANGED <<now, session, mongo_client, collection_handle, closes,
                   raw_data, transformed_data, transform_raised, extract_vars,
                   stage_vars, store_vars>>

\* failure: logger.error(...); sys.exit(1)
ExitFailure ==
    /\ pc = "failed"
    /\ exit_code' = 1
    /\ pc' = "finally"
    /\ UNCHANGED <<now, session, mongo_client, collection_handle, closes, log,
                   raw_data, transformed_data, transform_raised, extract_vars,
                   stage_vars, store_vars>>

\* A mutant of Finally: the session is closed only with the client.
FinallyNested ==
    /\ pc = "finally"
    /\ mongo_client' = IF mongo_client # "None" THEN "closed" ELSE mongo_client
    /\ session' = IF mongo_client # "None" THEN "closed" ELSE session
    /\ closes' = IF mongo_client # "None"
                 THEN [r \in DOMAIN closes |-> closes[r] + 1] ELSE closes
    /\ log' = IF mongo_client # "None"
              THEN log \o <<"close mongo_client", "close session">> ELSE log
    /\ pc' = "exited"
    /\ UNCHANGED <<now, collection_handle, exit_code, raw_data,
                   transformed_data, transform_raised, extract_vars,
                   stage_vars, store_vars>>

\* finally: if connector.mongo_client: close(); if connector.session: close()
Finally ==
    /\ pc = "finally"
    /\ mongo_client' = IF mongo_client # "None" THEN "closed" ELSE mongo_client
    /\ session' = IF session # "none" THEN "closed" ELSE session
    /\ closes' = [closes EXCEPT
                    !["mongo_client"] = IF mongo_client # "None" THEN @ + 1 ELSE @,
                    !["session"] = IF session # "none" THEN @ + 1 ELSE @]
    /\ log' = log \o (IF mongo_client # "None" THEN <<"close mongo_client">>
                      ELSE <<>>)
                  \o (IF session # "none" THEN <<"close session">> ELSE <<>>)
    /\ pc' = "exited"
    /\ UNCHANGED <<now, collection_handle, exit_code, raw_data,
                   transformed_data, transform_raised, extract_vars,
                   stage_vars, store_vars>>

\* The next run of the program, a day later, on the same store.
NextRun ==
    /\ pc = "exited"
    /\ now < Today + MaxRuns - 1
    /\ now' = now + 1
    /\ pc' = "start"
    /\ raw_data' = <<>>
    /\ transformed_data' = <<>>
    /\ transform_raised' = FALSE
    /\ session' = "none"
    /\ mongo_client' = "None"
    /\ collection_handle' = FALSE
    /\ responses' = <<>>
    /\ slept' = 0
    /\ extract_failed' = FALSE
    /\ stages' = <<>>
    /\ closes' = [r \in {"session", "mongo_client"} |-> 0]
    /\ log' = <<>>
    /\ exit_code' = -1
    /\ before' = {}
    /\ load_in' = NoLoad
    /\ load_out' = NoResult
    /\ UNCHANGED <<collection, indexes, latest, first_out>>

Next ==
    \/ Construct
    \/ ConnectToMongodb
    \/ ExtractData
    \/ TransformData
    \/ LoadData
    \/ ExitSuccess
    \/ ExitFailure
    \/ Finally
    \/ NextRun

Spec == Init /\ [][Next]_vars

-----------------------------------------------------------------------------
(* Claims about load_data (SpecLoad).                                       *)

Loaded == pc \in {"loaded", "reloaded"}

Positions(batch) == 1..Len(batch)

Written(call) == Positions(call.batch) \ call.fault.write_fails

CountOf(outcomes, what) ==
    Cardinality({i \in 1..Len(outcomes) : outcomes[i] = what})

\* No two documents of the batch share a cve_id and differ.
NoConflict(batch) ==
    \A i, j \in Positions(batch) :
        batch[i].cve_id = batch[j].cve_id => batch[i] = batch[j]

\* C1 as stated: load_data on a batch and then again on the same batch,
\* with no store failure, inserts nothing and counts no update on the
\* second call, and leaves the collection as the first call left it.
C1_SecondLoadCountsNothing ==
    pc = "reloaded" =>
        /\ load_out.inserted_count = 0
        /\ load_out.updated_count = 0
        /\ collection = before

\* C1 amended: the second call inserts nothing and leaves the collection
\* as the first call left it; it counts no update when no two documents of
\* the batch share a cve_id and differ, and otherwise it counts one for
\* every document of the batch that differs from the one stored before it.
C1_SecondLoadIdempotent ==
    pc = "reloaded" =>
        /\ load_out.ok /\ first_out.ok
        /\ load_out.inserted_count = 0
        /\ collection = before
        /\ NoConflict(load_in.batch) => load_out.updated_count = 0
        /\ ~NoConflict(load_in.batch) => load_out.updated_count >= 2

C1_Witness ==
    /\ pc = "reloaded"
    /\ Len(load_in.batch) = 2
    /\ load_in.batch[1].cve_id # load_in.batch[2].cve_id
    /\ first_out.inserted_count = 2
    /\ load_out.inserted_count = 0
    /\ load_out.updated_count = 0

\* C2: after any sequence of load_data calls the collection holds at most
\* one document for a cve_id, and the stored document is, field for field,
\* the last document that was loaded with that cve_id.
C2_OneDocumentPerIdLatestWins ==
    /\ \A s, t \in collection : s.doc.cve_id = t.doc.cve_id => s = t
    /\ Docs(collection) = latest

\* A stored document with a CVSS score was replaced by one without.
C2_Witness ==
    /\ Loaded
    /\ \E s \in collection, b \in before :
          /\ s.doc.cve_id = b.doc.cve_id
          /\ s._id = b._id
          /\ b.doc.cvss_score # None
          /\ s.doc.cvss_score = None

\* C6: when index creation succeeded, load_data returns True whichever
\* writes fail; every document whose write did not fail is written, in
\* batch order (the last written one of a cve_id is the one stored); a
\* cve_id whose writes all failed keeps what the collection held; and the
\* counters count the written documents only.
C6_FailedWriteDoesNotAbortBatch ==
    (Loaded /\ load_in.batch # <<>> /\ load_in.fault.index_fail_at = 0) =>
        LET batch == load_in.batch
            fails == load_in.fault.write_fails
            written == Written(load_in)
        IN  /\ load_out.ok
            /\ Len(load_out.outcomes) = Len(batch)
            /\ \A i \in Positions(batch) :
                  (load_out.outcomes[i] = "failed") <=> (i \in fails)
            /\ \A i \in written :
                  (\A j \in written : j > i => batch[j].cve_id # batch[i].cve_id)
                      => batch[i] \in Docs(collection)
            /\ \A d \in Documents :
                  (\A i \in written : batch[i].cve_id # d.cve_id)
                      => WithId(collection, d.cve_id) = WithId(before, d.cve_id)
            /\ load_out.inserted_count = CountOf(load_out.outcomes, "inserted")
            /\ load_out.updated_count = CountOf(load_out.outcomes, "updated")
            /\ load_out.inserted_count =
                  Cardinality({batch[i].cve_id : i \in written}
                              \ {s.doc.cve_id : s \in before})
            /\ load_out.inserted_count + load_out.updated_count
                  <= Cardinality(written)

\* The first write of two failed and the second document was inserted.
C6_Witness ==
    /\ pc = "loaded"
    /\ Len(load_in.batch) = 2
    /\ load_in.fault = [index_fail_at |-> 0, write_fails |-> {1}]
    /\ load_in.batch[1].cve_id # load_in.batch[2].cve_id
    /\ load_out.outcomes = <<"failed", "inserted">>
    /\ load_in.batch[2] \in Docs(collection)
    /\ WithId(collection, load_in.batch[1].cve_id) = {}

-----------------------------------------------------------------------------
(* Claims about transform_data (SpecTransform).                             *)

Throws(r) == transform_record(r, now).raised

Survives(r) == ~Throws(r)

OriginalsOf(docs) == [i \in 1..Len(docs) |-> docs[i].original_data]

\* C8: transform_data never raises; the records whose transformation
\* throws are skipped and every other record yields exactly one document,
\* in input order.
C8_ThrowingRecordsAreSkipped ==
    pc = "transformed" =>
        /\ ~transform_raised
        /\ OriginalsOf(transformed_data) = SelectSeq(raw_data, Survives)
        /\ Len(transformed_data) =
              Cardinality({i \in 1..Len(raw_data) : ~Throws(raw_data[i])})
        /\ \A i \in 1..Len(transformed_data) :
              /\ transformed_data[i].original_data.dict
              /\ transformed_data[i] =
                    transform_record(transformed_data[i].original_data, now).value

\* A record that is not a mapping was skipped and the record after it was
\* transformed.
C8_Witness ==
    /\ pc = "transformed"
    /\ Len(raw_data) = 2
    /\ raw_data[1] = ScalarRecord
    /\ Len(transformed_data) = 1
    /\ transformed_data[1].original_data = raw_data[2]

\* The record of scenario B: an id, references, no English description,
\* no CVSS v3.1 metric.
NoEnglish(descriptions) ==
    \A i \in 1..Len(descriptions.items) : descriptions.items[i].lang # "en"

ScenarioB(r) ==
    /\ r.dict
    /\ r.cve.kind = "dict"
    /\ TruthyStr(r.cve.id)
    /\ TruthyList(r.cve.references)
    /\ NoEnglish(r.cve.descriptions)
    /\ ~(r.cve.metrics.kind = "dict" /\ TruthyList(r.cve.metrics.cvssMetricV31))

ScenarioBFields(doc) ==
    /\ doc.description = ""
    /\ doc.cvss_score = None
    /\ doc.has_cvss_score = FALSE
    /\ doc.severity_level = 0

\* C9 as stated: every such record yields description "", no CVSS score,
\* severity level 0 and the quality score 0.5.
C9_ScenarioBScoresHalf ==
    pc = "transformed" =>
        \A i \in 1..Len(transformed_data) :
            ScenarioB(transformed_data[i].original_data) =>
                /\ ScenarioBFields(transformed_data[i])
                /\ transformed_data[i].etl_metadata.data_quality_score
                       = 2 * QuarterScore

\* C9 amended: every such record yields description "", no CVSS score and
\* severity level 0; its quality score is 0.5 when it carries no
\* description at all (the list is absent or empty) and 0.75 when it
\* carries descriptions none of which is English.  A regular record of
\* that kind always yields a document.
C9_ScenarioBScoresByDescriptions ==
    pc = "transformed" =>
        /\ \A i \in 1..Len(transformed_data) :
              LET doc == transformed_data[i]
                  r == doc.original_data
              IN  ScenarioB(r) =>
                     /\ ScenarioBFields(doc)
                     /\ doc.etl_metadata.data_quality_score =
                           IF TruthyList(r.cve.descriptions)
                           THEN 3 * QuarterScore ELSE 2 * QuarterScore
        /\ \A i \in 1..Len(raw_data) :
              (raw_data[i] \in RegularRecords /\ ScenarioB(raw_data[i]))
                  => raw_data[i] \in Range(OriginalsOf(transformed_data))

\* One record without descriptions and one with a Spanish description only.
C9_Witness ==
    /\ pc = "transformed"
    /\ Len(transformed_data) = 2
    /\ \A i \in 1..2 : ScenarioB(transformed_data[i].original_data)
    /\ transformed_data[1].original_data.cve.descriptions = NoList
    /\ transformed_data[1].etl_metadata.data_quality_score = 2 * QuarterScore
    /\ transformed_data[2].original_data.cve.descriptions = List(<<Spanish>>)
    /\ transformed_data[2].etl_metadata.data_quality_score = 3 * QuarterScore

-----------------------------------------------------------------------------
(* Claims about run_etl_pipeline, extract_data and main (Spec).             *)

IsPrefix(s, t) == Len(s) <= Len(t) /\ s = SubSeq(t, 1, Len(s))

Count(seq, e) == Cardinality({i \in 1..Len(seq) : seq[i] = e})

Max(S) == CHOOSE n \in S : \A m \in S : m <= n

\* Whether the k-th stage, once run, succeeded.
StageSucceeded(k) ==
    CASE k = 1 -> collection_handle
      [] k = 2 -> raw_data # <<>>
      [] k = 3 -> ~transform_raised /\ transformed_data # <<>>
      [] k = 4 -> load_out.called /\ load_out.ok

\* C3: the stages start in the order connect, extract, transform, load;
\* a stage starts only when every stage before it succeeded; a failed
\* connect, an empty extract, an empty transform or a failed load ends the
\* run in Failed with no later stage started; the run ends in Completed
\* only with all four stages started and succeeded.
C3_StagesInOrderShortCircuit ==
    /\ IsPrefix(stages, StageOrder)
    /\ \A k \in 1..(Len(stages) - 1) : StageSucceeded(k)
    /\ (pc = "failed" \/ exit_code = 1) =>
          /\ stages # <<>>
          /\ ~StageSucceeded(Len(stages))
    /\ (pc = "completed" \/ exit_code = 0) =>
          /\ stages = StageOrder
          /\ \A k \in 1..4 : StageSucceeded(k)
    /\ (stages # <<>> /\ ~StageSucceeded(Len(stages))) =>
          /\ pc \in {"failed", "finally", "exited"}
          /\ exit_code # 0
    /\ pc \in {"extract", "transform", "load"} =>
          /\ Len(stages) < 4
          /\ pc = StageOrder[Len(stages) + 1]

\* The transformation left nothing and the run failed without loading.
C3_Witness ==
    /\ pc = "failed"
    /\ stages = <<"connect", "extract", "transform">>
    /\ raw_data # <<>>
    /\ transformed_data = <<>>
    /\ ~load_in.called

CloseEvents == {"close mongo_client", "close session"}

ClosedInOrder ==
    /\ \A i, j \in 1..Len(log) :
          (log[i] \in CloseEvents /\ i < j) => log[j] \in CloseEvents
    /\ \A i, j \in 1..Len(log) :
          (log[i] \in {"stats", "stats failed"} /\ log[j] \in CloseEvents)
              => i < j
    /\ closes["session"] = Count(log, "close session")
    /\ closes["mongo_client"] = Count(log, "close mongo_client")

\* C4 as stated: on every exit path of main the session and the store
\* client are each closed exactly once, after statistics collection, and
\* nothing uses the store or HTTP after the close.
C4_BothClosedExactlyOnce ==
    /\ ClosedInOrder
    /\ pc = "exited" =>
          /\ closes["session"] = 1
          /\ closes["mongo_client"] = 1

\* C4 amended: on every exit path the session is closed exactly once; the
\* store client is closed exactly once when MongoClient(...) returned one,
\* and there is none to close when the constructor itself raised; the
\* closes come after statistics collection and nothing uses the store or
\* HTTP after them.
C4_CreatedResourcesClosedOnce ==
    /\ ClosedInOrder
    /\ closes["session"] <= 1 /\ closes["mongo_client"] <= 1
    /\ pc = "exited" =>
          /\ closes["session"] = 1
          /\ session = "closed"
          /\ closes["mongo_client"] = Count(log, "MongoClient()")
          /\ mongo_client = IF Count(log, "MongoClient()") = 1
                            THEN "closed" ELSE "None"

\* A completed run: statistics, then both closes.
C4_Witness ==
    /\ pc = "exited"
    /\ exit_code = 0
    /\ Count(log, "stats") = 1
    /\ closes = [r \in {"session", "mongo_client"} |-> 1]
    /\ SubSeq(log, Len(log) - 2, Len(log))
          = <<"stats", "close mongo_client", "close session">>

\* C5: when every store call of the load stage fails (the store is
\* unavailable from the first create_index on), load_data returns False,
\* nothing is written, and the run ends in Failed.
C5_StoreDownFailsTheRun ==
    (load_in.called /\ load_in.batch # <<>>
        /\ load_in.fault = StoreDown(load_in.batch)) =>
        /\ ~load_out.ok
        /\ load_out.inserted_count = 0 /\ load_out.updated_count = 0
        /\ collection = before
        /\ pc \in {"failed", "finally", "exited"}
        /\ exit_code # 0
        /\ pc = "exited" => exit_code = 1

C5_Witness ==
    /\ pc = "exited"
    /\ exit_code = 1
    /\ stages = StageOrder
    /\ load_in.called
    /\ Len(load_in.batch) = 2
    /\ load_in.fault = StoreDown(load_in.batch)

\* C7 as stated: after a 429 extract_data sleeps and asks once more, sends
\* at most two requests, and no 429 by itself ends the call with the
\* empty failure result.
C7_RateLimitNeverFails ==
    responses # <<>> =>
        /\ Len(responses) <= 2
        /\ responses[1] = RateLimited =>
              Len(responses) = 2 /\ slept = BackoffSeconds
        /\ extract_failed => \E i \in 1..Len(responses) :
                                 responses[i].status # 429

\* C7 amended: a first 429 makes extract_data sleep for the backoff and
\* send the request once more, and only then is there a second request;
\* the call ends as the last response decides: the records of a 200 with
\* a JSON body, and the empty failure result for anything else, a 429 to
\* the second request included.
C7_RateLimitRetriedOnce ==
    responses # <<>> =>
        LET last == responses[Len(responses)]
        IN  /\ Len(responses) <= 2
            /\ (Len(responses) = 2) <=> (responses[1].status = 429)
            /\ slept = IF responses[1].status = 429 THEN BackoffSeconds ELSE 0
            /\ extract_failed <=> (last.status # 200 \/ ~last.json)
            /\ raw_data = IF extract_failed THEN <<>> ELSE last.vulnerabilities

\* A 429, the backoff, and a second request that brought records.
C7_Witness ==
    /\ Len(responses) = 2
    /\ responses[1] = RateLimited
    /\ responses[2].status = 200
    /\ slept = BackoffSeconds
    /\ ~extract_failed
    /\ raw_data = responses[2].vulnerabilities
    /\ raw_data # <<>>

\* A raw record without an id.
NoId(r) == r.dict /\ r.cve.kind \in {"missing", "dict"} /\ r.cve.id = Missing

\* C10: a record without an id is transformed into a document with cve_id
\* "unknown" and handed to load_data; the collection never holds more
\* than one such document, it is the last one written, and of the written
\* ones the first ever is counted as an insert and each later one as an
\* update when it differs from the one stored before it.
C10_UnknownIdsCollide ==
    /\ Cardinality(WithId(collection, "unknown")) <= 1
    /\ Len(stages) >= 3 =>
          /\ \A i \in 1..Len(raw_data) :
                (NoId(raw_data[i]) /\ Survives(raw_data[i])) =>
                    \E j \in 1..Len(transformed_data) :
                        /\ transformed_data[j].original_data = raw_data[i]
                        /\ transformed_data[j].cve_id = "unknown"
          /\ \A j \in 1..Len(transformed_data) :
                NoId(transformed_data[j].original_data)
                    => transformed_data[j].cve_id = "unknown"
    /\ load_in.called => load_in.batch = transformed_data
    /\ (load_in.called /\ load_out.ok) =>
          LET batch == load_in.batch
              U == {i \in Written(load_in) : batch[i].cve_id = "unknown"}
          IN  /\ \A i \in U :
                    LET earlier == {j \in U : j < i}
                        prev == IF earlier = {}
                                THEN Docs(WithId(before, "unknown"))
                                ELSE {batch[Max(earlier)]}
                    IN  load_out.outcomes[i] =
                            IF prev = {} THEN "inserted"
                            ELSE IF prev = {batch[i]} THEN "unchanged"
                            ELSE "updated"
              /\ U # {} => Docs(WithId(collection, "unknown")) = {batch[Max(U)]}

\* Two differing records without an id in one batch: an insert, then an
\* update, and the second is the one stored.
C10_Witness ==
    /\ load_in.called
    /\ load_in.fault = NoFault
    /\ Len(raw_data) = 2
    /\ NoId(raw_data[1]) /\ NoId(raw_data[2])
    /\ raw_data[1] # raw_data[2]
    /\ load_out.outcomes = <<"inserted", "updated">>
    /\ Docs(collection) = {transformed_data[2]}

=============================================================================
